---- MODULE Spec2Model ----
(***************************************************************************)
(* A model of sktime.markovprocess.reactive_flux.ReactiveFlux: the         *)
(* reactive-flux object of transition path theory, its derived accessors,  *)
(* its setters, major_flux and the coarse-graining onto user sets.         *)
(*                                                                         *)
(* Conventions.                                                            *)
(*  - State labels are the integers 0..n_states-1, as in the source.       *)
(*  - A Python list of sets (tpt_sets, user_sets) is a TLA+ sequence; the  *)
(*    Python index k is the TLA+ index k+1.  Index collections (Aindexes,  *)
(*    Bindexes) keep the Python 0-based values.                            *)
(*  - Vectors and matrices are functions over 0..n-1.                      *)
(*  - A real number that arises from a division is kept as the pair        *)
(*    <<numerator, denominator>>; x/0 with x > 0 is inf and 0/0 is nan,    *)
(*    which is what numpy produces.  Rounding is not modelled.             *)
(***************************************************************************)
EXTENDS Integers, Sequences, FiniteSets

\* self: the fields of the ReactiveFlux object; ctor: the object as its
\* constructor left it; op: the method called last; the others: the
\* arguments and results of that call
VARIABLES self, ctor, op, user_sets, tpt_sets, Aindexes, Bindexes, res,
          paths, pathfluxes, F

vars == <<self, ctor, op, user_sets, tpt_sets, Aindexes, Bindexes, res,
          paths, pathfluxes, F>>

(***************************************************************************)
(* Bounds of the model.                                                    *)
(***************************************************************************)
NStates == 3
MaxUserSets == 2
MaxMu == 2
MaxDt == 2
MaxPaths == 2
MaxPathFlux == 2
MaxFlux == 2

States == 0..(NStates - 1)

(***************************************************************************)
(* Arithmetic helpers.                                                     *)
(***************************************************************************)
RECURSIVE SumOver(_, _)
SumOver(f, S) ==
    IF S = {} THEN 0
    ELSE LET x == CHOOSE y \in S : TRUE
         IN  f[x] + SumOver(f, S \ {x})

RECURSIVE SumSeq(_)
SumSeq(s) == IF s = <<>> THEN 0 ELSE Head(s) + SumSeq(Tail(s))

Num(x) == x[1]
Den(x) == x[2]
IsNan(x) == Den(x) = 0 /\ Num(x) = 0
IsInf(x) == Den(x) = 0 /\ Num(x) # 0
\* equality of two quotients as real numbers (nan equals nothing)
RatEq(x, y) ==
    /\ ~IsNan(x)
    /\ ~IsNan(y)
    /\ IsInf(x) = IsInf(y)
    /\ ~IsInf(x) => Num(x) * Den(y) = Num(y) * Den(x)
RECURSIVE GCD(_, _)
GCD(a, b) == IF b = 0 THEN a ELSE GCD(b, a % b)
\* the quotient a / b in lowest terms
Quot(a, b) ==
    LET g == GCD(a, b)
    IN  IF g = 0 THEN <<0, 0>> ELSE <<a \div g, b \div g>>
RatInv(x) == <<Den(x), Num(x)>>
RatTimes(x, k) == Quot(Num(x) * k, Den(x))
RatOver(x, k) == Quot(Num(x), Den(x) * k)
RatOf(k) == <<k, 1>>
RatAdd(x, y) == Quot(Num(x) * Den(y) + Num(y) * Den(x), Den(x) * Den(y))

\* the sum over S of w[s] * q[s], for integer weights w and quotients q
RECURSIVE Dot(_, _, _)
Dot(w, q, S) ==
    IF S = {} THEN RatOf(0)
    ELSE LET x == CHOOSE y \in S : TRUE
         IN  RatAdd(RatTimes(q[x], w[x]), Dot(w, q, S \ {x}))

(***************************************************************************)
(* The external flux primitives, by their contract at the call sites.      *)
(***************************************************************************)
\* total_flux(flux, A): the flux leaving A
total_flux(flux, setA) ==
    LET n == Cardinality(DOMAIN flux)
        notA == (0..(n - 1)) \ setA
        rowOut == [a \in setA |-> SumOver(flux[a], notA)]
    IN  SumOver(rowOut, setA)

\* rate(totalflux, mu, qminus) = totalflux / sum(mu * qminus)
rate_of(totalflux, mu, qminus) ==
    LET d == Dot(mu, qminus, DOMAIN mu)
    IN  Quot(totalflux * Den(d), Num(d))

\* coarsegrain(F, sets): flux between every two distinct groups
coarsegrain(G, sets) ==
    LET nnew == Len(sets)
        between(I, J) ==
            SumOver([a \in I |-> SumOver(G[a], J)], I)
    IN  [i \in 0..(nnew - 1) |-> [j \in 0..(nnew - 1) |->
            IF i = j THEN 0 ELSE between(sets[i + 1], sets[j + 1])]]

\* to_netflux(F): max(0, F - F^T)
to_netflux(G) ==
    [i \in DOMAIN G |-> [j \in DOMAIN G |->
        IF G[i][j] > G[j][i] THEN G[i][j] - G[j][i] ELSE 0]]

(***************************************************************************)
(* ReactiveFlux: construction and accessors.                               *)
(***************************************************************************)
ReactiveFlux(cA, cB, cflux, cmu, cqminus, cqplus, cgross, physical_time) ==
    LET tf == total_flux(cflux, cA)
    IN  [A |-> cA, B |-> cB, flux |-> cflux, mu |-> cmu, qminus |-> cqminus,
         qplus |-> cqplus, gross_flux |-> cgross, dt_model |-> physical_time,
         totalflux |-> tf, kAB |-> rate_of(tf, cmu, cqminus)]

n_states(m) == Cardinality(DOMAIN m.flux)

\* (mutant) the intermediate states are those of the constructor's A and B
I_cached(m) == ((0..(n_states(m) - 1)) \ ctor.A) \ ctor.B

I(m) == ((0..(n_states(m) - 1)) \ m.A) \ m.B

\* total_flux, rate and mfpt, in units of physical_time
total_flux_of(m) == Quot(m.totalflux, m.dt_model)

rate(m) == RatOver(m.kAB, m.dt_model)

\* (mutant) the mean first passage time in steps, not scaled
mfpt_unscaled(m) == RatInv(m.kAB)

mfpt(m) == Quot(m.dt_model * Den(m.kAB), Num(m.kAB))

(***************************************************************************)
(* The setters.                                                            *)
(***************************************************************************)
\* (mutant) the A setter recomputes the derived quantities
set_A_recomputing(m, val) ==
    LET tf == total_flux(m.flux, val \cap DOMAIN m.flux)
    IN  [m EXCEPT !.A = val, !.totalflux = tf,
                  !.kAB = rate_of(tf, m.mu, m.qminus)]

with_A(m, val) == [m EXCEPT !.A = val]

with_B(m, val) == [m EXCEPT !.B = val]

with_stationary_distribution(m, val) == [m EXCEPT !.mu = val]

with_physical_time(m, value) == [m EXCEPT !.dt_model = value]

(***************************************************************************)
(* _compute_coarse_sets                                                    *)
(***************************************************************************)
\* set_all - set_all_user: the states no user set lists
set_rest(m, usets) ==
    (0..(n_states(m) - 1)) \ UNION {usets[k] : k \in DOMAIN usets}

\* (mutant) the unlisted states are dropped instead of appended
raw_sets_without_rest(m, usets) == usets

\* (mutant) the unlisted states are put before the user sets
raw_sets_rest_first(m, usets) ==
    IF Cardinality(set_rest(m, usets)) > 0
    THEN <<set_rest(m, usets)>> \o usets
    ELSE usets

\* (mutant) a state already listed by an earlier user set is removed from
\* the later ones
RECURSIVE without_seen(_, _)
without_seen(usets, seen) ==
    IF usets = <<>> THEN <<>>
    ELSE <<Head(usets) \ seen>>
            \o without_seen(Tail(usets), seen \cup Head(usets))
raw_sets_deduplicated(m, usets) ==
    IF Cardinality(set_rest(m, usets)) > 0
    THEN Append(without_seen(usets, {}), set_rest(m, usets))
    ELSE without_seen(usets, {})

\* raw_sets after the unlisted states were appended as one more set
raw_sets(m, usets) ==
    IF Cardinality(set_rest(m, usets)) > 0
    THEN Append(usets, set_rest(m, usets))
    ELSE usets

\* (mutant) the intersections are appended without the len(s) > 0 test
RECURSIVE split_sets_unfiltered(_, _)
split_sets_unfiltered(raw, region) ==
    IF raw = <<>> THEN <<>>
    ELSE <<Head(raw) \cap region>> \o split_sets_unfiltered(Tail(raw), region)

\* (mutant) a raw set that meets the region is appended whole, not its part
RECURSIVE split_sets_intact(_, _)
split_sets_intact(raw, region) ==
    IF raw = <<>> THEN <<>>
    ELSE IF Cardinality(Head(raw) \cap region) > 0
         THEN <<Head(raw)>> \o split_sets_intact(Tail(raw), region)
         ELSE split_sets_intact(Tail(raw), region)

\* the non-empty intersections of the raw sets with one region, in order
RECURSIVE split_sets(_, _)
split_sets(raw, region) ==
    IF raw = <<>> THEN <<>>
    ELSE LET s == Head(raw) \cap region
         IN  IF Cardinality(s) > 0
             THEN <<s>> \o split_sets(Tail(raw), region)
             ELSE split_sets(Tail(raw), region)

Asets(m, usets) == split_sets(raw_sets(m, usets), m.A)
Isets(m, usets) == split_sets(raw_sets(m, usets), I(m))
Bsets(m, usets) == split_sets(raw_sets(m, usets), m.B)

\* (mutant) the regions are concatenated in another order
tpt_sets_I_first(m, usets) ==
    Isets(m, usets) \o Asets(m, usets) \o Bsets(m, usets)

compute_tpt_sets(m, usets) ==
    Asets(m, usets) \o Isets(m, usets) \o Bsets(m, usets)

compute_Aindexes(m, usets) == 0..(Len(Asets(m, usets)) - 1)

compute_Bindexes(m, usets) ==
    (Len(Asets(m, usets)) + Len(Isets(m, usets)))
        ..(Len(compute_tpt_sets(m, usets)) - 1)

(***************************************************************************)
(* Inputs of the constructor.                                              *)
(***************************************************************************)
\* every split of the states into A, B and the rest, A and B disjoint
DisjointAB ==
    {ab \in (SUBSET States) \X (SUBSET States) : ab[1] \cap ab[2] = {}}

\* the same with a source and a sink: A and B both non-empty
ReactiveAB == {ab \in DisjointAB : ab[1] # {} /\ ab[2] # {}}

\* a strictly positive stationary vector
UniformMu == [s \in States |-> 1]

\* a stationary vector with one state heavier than the others
HeavyMu == {[s \in States |-> IF s = h THEN MaxMu ELSE 1] : h \in States}

\* a net flux along increasing labels
UnitFlux == [i \in States |-> [j \in States |-> IF i < j THEN 1 ELSE 0]]

\* committors with the boundary values on A and B and, on an intermediate
\* state s, the value (s + 1) / (n + 1) strictly between them
qplus_of(a, b) ==
    [s \in States |-> IF s \in b THEN RatOf(1)
                      ELSE IF s \in a THEN RatOf(0)
                      ELSE <<s + 1, NStates + 1>>]
qminus_of(a, b) ==
    [s \in States |-> IF s \in a THEN RatOf(1)
                      ELSE IF s \in b THEN RatOf(0)
                      ELSE <<NStates - s, NStates + 1>>]

NoModel == ReactiveFlux({}, {}, <<>>, <<>>, <<>>, <<>>, <<>>, 1)

\* the state right after self = ReactiveFlux(a, b, fl, m, ..., dt)
Constructed(a, b, fl, m, dt) ==
    /\ self = ReactiveFlux(a, b, fl, m, qminus_of(a, b), qplus_of(a, b), fl, dt)
    /\ ctor = self
    /\ op = "init"
    /\ user_sets = <<>>
    /\ tpt_sets = <<>>
    /\ Aindexes = {}
    /\ Bindexes = {}
    /\ res = NoModel
    /\ paths = <<>>
    /\ pathfluxes = <<>>
    /\ F = <<>>

\* the lists of at most MaxUserSets user sets
UserSetChoices ==
    UNION {[1..k -> SUBSET States] : k \in 0..MaxUserSets}

(***************************************************************************)
(* The partitioner on its own: one call of _compute_coarse_sets.           *)
(***************************************************************************)
InitSets ==
    \E ab \in DisjointAB : Constructed(ab[1], ab[2], UnitFlux, UniformMu, 1)

compute_coarse_sets ==
    /\ op = "init"
    /\ \E us \in UserSetChoices :
          /\ user_sets' = us
          /\ tpt_sets' = compute_tpt_sets(self, us)
          /\ Aindexes' = compute_Aindexes(self, us)
          /\ Bindexes' = compute_Bindexes(self, us)
    /\ op' = "_compute_coarse_sets"
    /\ UNCHANGED <<self, ctor, res, paths, pathfluxes, F>>

NextSets == compute_coarse_sets

SpecSets == InitSets /\ [][NextSets]_vars

(***************************************************************************)
(* coarse_grain                                                            *)
(***************************************************************************)
\* (mutant) every member of a group counts 1, whatever its mu
pstat_coarse_unweighted(m, sets) ==
    [i \in 0..(Len(sets) - 1) |-> Cardinality(sets[i + 1])]

\* pstat_coarse[i] = np.sum(mu[tpt_sets[i]])
pstat_coarse(m, sets) ==
    [i \in 0..(Len(sets) - 1) |-> SumOver(m.mu, sets[i + 1])]

\* (mutant) the committor is summed with the weights mu, not mu / pstat
committor_unnormalized(m, q, sets) ==
    [i \in 0..(Len(sets) - 1) |-> Dot(m.mu, q, sets[i + 1])]

\* np.dot(muI / pstat_coarse[i], q[I]) for every group
committor_coarse(m, q, sets) ==
    [i \in 0..(Len(sets) - 1) |->
        RatOver(Dot(m.mu, q, sets[i + 1]), pstat_coarse(m, sets)[i])]

\* (mutant) the new model is built without physical_time
coarse_model_default_time(m, sets, Aidx, Bidx) ==
    LET F_coarse == coarsegrain(m.gross_flux, sets)
    IN  ReactiveFlux(Aidx, Bidx, to_netflux(F_coarse), pstat_coarse(m, sets),
                     committor_coarse(m, m.qminus, sets),
                     committor_coarse(m, m.qplus, sets), F_coarse, 1)

\* the model coarse_grain builds from the sets and indexes it computed
coarse_model(m, sets, Aidx, Bidx) ==
    LET F_coarse == coarsegrain(m.gross_flux, sets)
    IN  ReactiveFlux(Aidx, Bidx, to_netflux(F_coarse), pstat_coarse(m, sets),
                     committor_coarse(m, m.qminus, sets),
                     committor_coarse(m, m.qplus, sets), F_coarse, m.dt_model)

\* one user set per state: [{s} for s in range(n_states)]
Singletons == [k \in 1..NStates |-> {k - 1}]

\* a user set of one state or of two neighbouring states
ClusterChoices ==
    {{s} : s \in States} \cup {{s, s + 1} : s \in 0..(NStates - 2)}

\* lists of at most MaxUserSets such user sets, and the list of all singletons
CoarseUserSetChoices ==
    UNION {[1..k -> ClusterChoices] : k \in 0..MaxUserSets} \cup {Singletons}

InitCoarse ==
    \E ab \in ReactiveAB :
        \/ \E m \in HeavyMu : Constructed(ab[1], ab[2], UnitFlux, m, 1)
        \/ \E dt \in 1..MaxDt :
              Constructed(ab[1], ab[2], UnitFlux, UniformMu, dt)

coarse_grain ==
    /\ op = "init"
    /\ \E us \in CoarseUserSetChoices :
          /\ user_sets' = us
          /\ tpt_sets' = compute_tpt_sets(self, us)
          /\ Aindexes' = compute_Aindexes(self, us)
          /\ Bindexes' = compute_Bindexes(self, us)
          /\ res' = coarse_model(self, tpt_sets', Aindexes', Bindexes')
    /\ op' = "coarse_grain"
    /\ UNCHANGED <<self, ctor, paths, pathfluxes, F>>

NextCoarse == coarse_grain

SpecCoarse == InitCoarse /\ [][NextCoarse]_vars

(***************************************************************************)
(* The setters of A, B and stationary_distribution, called in any order.   *)
(***************************************************************************)
\* the values handed to the A and B setters: any set of states, or a label
\* that is no state of the model
LabelSetChoices == (SUBSET States) \cup {{NStates}}

InitSetters ==
    \E ab \in ReactiveAB : Constructed(ab[1], ab[2], UnitFlux, UniformMu, 1)

set_A ==
    /\ \E val \in LabelSetChoices : self' = with_A(self, val)
    /\ op' = "setter"
    /\ UNCHANGED <<ctor, user_sets, tpt_sets, Aindexes, Bindexes, res, paths,
                   pathfluxes, F>>

set_B ==
    /\ \E val \in LabelSetChoices : self' = with_B(self, val)
    /\ op' = "setter"
    /\ UNCHANGED <<ctor, user_sets, tpt_sets, Aindexes, Bindexes, res, paths,
                   pathfluxes, F>>

set_stationary_distribution ==
    /\ \E val \in HeavyMu \cup {UniformMu} :
          self' = with_stationary_distribution(self, val)
    /\ op' = "setter"
    /\ UNCHANGED <<ctor, user_sets, tpt_sets, Aindexes, Bindexes, res, paths,
                   pathfluxes, F>>

NextSetters == set_A \/ set_B \/ set_stationary_distribution

SpecSetters == InitSetters /\ [][NextSetters]_vars

(***************************************************************************)
(* rate and mfpt under the physical_time setter.                           *)
(***************************************************************************)
\* net fluxes along increasing labels
FluxChoices ==
    {[i \in States |-> [j \in States |-> IF i < j THEN c ELSE 0]] :
        c \in 1..MaxFlux}

InitRate ==
    \E ab \in ReactiveAB, fl \in FluxChoices, m \in HeavyMu \cup {UniformMu},
       dt \in 1..MaxDt :
        Constructed(ab[1], ab[2], fl, m, dt)

set_physical_time ==
    /\ \E value \in 1..MaxDt : self' = with_physical_time(self, value)
    /\ op' = "set_physical_time"
    /\ UNCHANGED <<ctor, user_sets, tpt_sets, Aindexes, Bindexes, res, paths,
                   pathfluxes, F>>

NextRate == set_physical_time

SpecRate == InitRate /\ [][NextRate]_vars

(***************************************************************************)
(* major_flux                                                              *)
(***************************************************************************)
\* (mutant) the entry is assigned the path flux instead of incremented
RECURSIVE add_path_assigning(_, _, _, _)
add_path_assigning(M, p, f, t) ==
    IF t > Len(p) - 1 THEN M
    ELSE add_path_assigning([M EXCEPT ![p[t]][p[t + 1]] = f], p, f, t + 1)

\* for t in range(len(p) - 1): F[p[t], p[t + 1]] += f, from position t on
RECURSIVE add_path(_, _, _, _)
add_path(M, p, f, t) ==
    IF t > Len(p) - 1 THEN M
    ELSE add_path([M EXCEPT ![p[t]][p[t + 1]] = @ + f], p, f, t + 1)

\* for i, p in enumerate(paths): ..., from path i on
RECURSIVE add_paths(_, _, _, _)
add_paths(M, ps, fl, i) ==
    IF i > Len(ps) THEN M
    ELSE add_paths(add_path(M, ps[i], fl[i], 1), ps, fl, i + 1)

\* _pathways_to_flux(paths, pathfluxes, n)
pathways_to_flux(ps, fl, n) ==
    add_paths([i \in 0..(n - 1) |-> [j \in 0..(n - 1) |-> 0]], ps, fl, 1)

\* what pathways may return for one path: a path without repeated state
\* from a state of A to the first state of B it reaches
PathChoices(m) ==
    {p \in UNION {[1..k -> 0..(n_states(m) - 1)] : k \in 2..n_states(m)} :
        /\ p[1] \in m.A
        /\ p[Len(p)] \in m.B
        /\ \A t \in 2..(Len(p) - 1) : p[t] \notin m.B
        /\ \A t, u \in 1..Len(p) : t # u => p[t] # p[u]}

\* the fluxes pathways may return for k paths: largest first
PathFluxChoices(k) ==
    {fl \in [1..k -> 1..MaxPathFlux] :
        \A x, y \in 1..k : x < y => fl[x] >= fl[y]}

InitFlux ==
    \E ab \in ReactiveAB : Constructed(ab[1], ab[2], UnitFlux, UniformMu, 1)

major_flux ==
    /\ op = "init"
    /\ \E k \in 0..MaxPaths :
          \E ps \in [1..k -> PathChoices(self)], fl \in PathFluxChoices(k) :
              /\ paths' = ps
              /\ pathfluxes' = fl
              /\ F' = pathways_to_flux(ps, fl, n_states(self))
    /\ op' = "major_flux"
    /\ UNCHANGED <<self, ctor, user_sets, tpt_sets, Aindexes, Bindexes, res>>

NextFlux == major_flux

SpecFlux == InitFlux /\ [][NextFlux]_vars

(***************************************************************************)
(* Properties of the partitioner.                                          *)
(***************************************************************************)
Called == op = "_compute_coarse_sets"

PairwiseDisjoint(sets) ==
    \A i, j \in DOMAIN sets : i # j => sets[i] \cap sets[j] = {}

\* the Python indexes of the groups
GroupIndexes == 0..(Len(tpt_sets) - 1)
Group(k) == tpt_sets[k + 1]

\* how many of the three regions hold the whole set g
RegionsHolding(g) ==
    (IF g \subseteq self.A THEN 1 ELSE 0)
    + (IF g \subseteq I(self) THEN 1 ELSE 0)
    + (IF g \subseteq self.B THEN 1 ELSE 0)

\* C1: every group returned by _compute_coarse_sets is non-empty and lies
\* inside exactly one of A, I, B, whatever the user sets are.
C1_GroupsRespectBoundary ==
    Called => \A k \in GroupIndexes :
                 /\ Group(k) # {}
                 /\ RegionsHolding(Group(k)) = 1

\* a user set that meets all three regions was split
C1_Witness ==
    /\ Called
    /\ \E i \in DOMAIN user_sets :
          /\ user_sets[i] \cap self.A # {}
          /\ user_sets[i] \cap I(self) # {}
          /\ user_sets[i] \cap self.B # {}
    /\ Len(tpt_sets) >= 3

\* C2: with pairwise disjoint user sets and disjoint A, B inside
\* 0..n_states-1, the groups partition 0..n_states-1: every state is in
\* exactly one group, whether or not the user sets list every state.
C2_GroupsPartitionStates ==
    ( /\ Called
      /\ PairwiseDisjoint(user_sets)
      /\ self.A \cap self.B = {}
      /\ (self.A \cup self.B) \subseteq 0..(n_states(self) - 1) )
    => /\ \A s \in 0..(n_states(self) - 1) :
             Cardinality({k \in GroupIndexes : s \in Group(k)}) = 1
       /\ UNION {Group(k) : k \in GroupIndexes} = 0..(n_states(self) - 1)

\* two disjoint non-empty user sets that leave some state unlisted
C2_Witness ==
    /\ Called
    /\ Len(user_sets) = 2
    /\ user_sets[1] # {}
    /\ user_sets[2] # {}
    /\ PairwiseDisjoint(user_sets)
    /\ UNION {user_sets[i] : i \in DOMAIN user_sets} # 0..(n_states(self) - 1)
    /\ self.A # {}
    /\ self.B # {}

\* the sets the groups originate from: the user sets, then the unlisted states
Origins ==
    LET rest == (0..(n_states(self) - 1))
                    \ UNION {user_sets[i] : i \in DOMAIN user_sets}
    IN  IF rest = {} THEN user_sets ELSE user_sets \o <<rest>>

\* the groups of one region are, in order, the non-empty parts of the origins
InOriginOrder(region) ==
    LET pos == {k \in GroupIndexes : Group(k) \subseteq region}
        src == {i \in DOMAIN Origins : Origins[i] \cap region # {}}
        rankP(k) == Cardinality({x \in pos : x < k})
        rankS(i) == Cardinality({x \in src : x < i})
    IN  /\ Cardinality(pos) = Cardinality(src)
        /\ \A k \in pos, i \in src :
              rankP(k) = rankS(i) => Group(k) = Origins[i] \cap region

\* C10: the groups come as A-region groups, then I-region groups, then
\* B-region groups; Aindexes is the prefix and Bindexes the suffix of the
\* index range, a group lies in A iff its index is in Aindexes and in B iff
\* it is in Bindexes, and inside a region the groups keep the order of the
\* user sets they come from.
C10_RegionOrder ==
    Called =>
      LET nA == Cardinality(Aindexes)
          nB == Cardinality(Bindexes)
          n == Len(tpt_sets)
      IN  /\ Aindexes = 0..(nA - 1)
          /\ Bindexes = (n - nB)..(n - 1)
          /\ nA + nB <= n
          /\ \A k \in GroupIndexes :
                /\ (Group(k) \subseteq self.A) <=> (k \in Aindexes)
                /\ (Group(k) \subseteq self.B) <=> (k \in Bindexes)
                /\ (Group(k) \subseteq I(self))
                     <=> (k \notin Aindexes /\ k \notin Bindexes)
          /\ InOriginOrder(self.A)
          /\ InOriginOrder(I(self))
          /\ InOriginOrder(self.B)

\* two user sets, each split over two regions, and all three regions present
C10_Witness ==
    /\ Called
    /\ Aindexes # {}
    /\ Bindexes # {}
    /\ Cardinality(Aindexes) + Cardinality(Bindexes) < Len(tpt_sets)
    /\ \E r \in {self.A, I(self), self.B} :
          /\ Cardinality({k \in GroupIndexes : Group(k) \subseteq r}) >= 2
          /\ \E i, j \in DOMAIN user_sets :
                i < j /\ user_sets[i] \cap r # {} /\ user_sets[j] \cap r # {}

(***************************************************************************)
(* Properties of coarse_grain.                                             *)
(***************************************************************************)
Coarsened == op = "coarse_grain"

Total(v) == SumOver(v, DOMAIN v)

\* C3 as stated: the coarse stationary vector sums to what mu sums to.
C3_MassConserved ==
    Coarsened => Total(res.mu) = Total(self.mu)

\* C3 (amended): when the user sets are pairwise disjoint, the coarse
\* stationary vector sums to what the original mu sums to.
C3_MassConservedDisjoint ==
    (Coarsened /\ PairwiseDisjoint(user_sets))
        => Total(res.mu) = Total(self.mu)

\* two disjoint user sets, a group of two states, a non-uniform mu
C3_Witness ==
    /\ Coarsened
    /\ Len(user_sets) >= 2
    /\ PairwiseDisjoint(user_sets)
    /\ \E k \in GroupIndexes : Cardinality(Group(k)) >= 2
    /\ \E s, t \in DOMAIN self.mu : self.mu[s] # self.mu[t]
    /\ Len(tpt_sets) < n_states(self)

\* the one state of a singleton group
Elem(k) == CHOOSE s \in Group(k) : TRUE

\* C4: with one singleton user set per state, coarse_grain returns
\* n_states singleton groups, as many coarse A, B and intermediate indexes
\* as the model has A, B and intermediate states, and the coarse mu and
\* committors are the original ones in the order of the groups.
C4_SingletonsReproduceModel ==
    (Coarsened /\ user_sets = Singletons) =>
        /\ Len(tpt_sets) = n_states(self)
        /\ n_states(res) = n_states(self)
        /\ \A k \in GroupIndexes : Cardinality(Group(k)) = 1
        /\ \A s \in 0..(n_states(self) - 1) :
              Cardinality({k \in GroupIndexes : Group(k) = {s}}) = 1
        /\ Cardinality(res.A) = Cardinality(self.A)
        /\ Cardinality(res.B) = Cardinality(self.B)
        /\ Cardinality(I(res)) = Cardinality(I(self))
        /\ \A k \in GroupIndexes :
              /\ res.mu[k] = self.mu[Elem(k)]
              /\ RatEq(res.qplus[k], self.qplus[Elem(k)])
              /\ RatEq(res.qminus[k], self.qminus[Elem(k)])

\* the groups reorder the states, mu is not uniform, all regions are present
C4_Witness ==
    /\ Coarsened
    /\ user_sets = Singletons
    /\ \E k \in GroupIndexes : Elem(k) # k
    /\ \E s, t \in DOMAIN self.mu : self.mu[s] # self.mu[t]
    /\ self.A # {}
    /\ self.B # {}
    /\ I(self) # {}

\* what coarse_grain returned, against the model it was called on
C5_Result ==
    LET n == Len(tpt_sets)
        sets2 == compute_tpt_sets(res, <<>>)
        again == coarse_model(res, sets2, compute_Aindexes(res, <<>>),
                              compute_Bindexes(res, <<>>))
    IN  /\ res.A = Aindexes
        /\ res.B = Bindexes
        /\ res.dt_model = self.dt_model
        /\ n_states(res) = n
        /\ DOMAIN res.mu = GroupIndexes
        /\ DOMAIN res.qminus = GroupIndexes
        /\ DOMAIN res.qplus = GroupIndexes
        /\ res.A \cap res.B = {}
        /\ I(res) = {k \in GroupIndexes : Group(k) \subseteq I(self)}
        /\ I(res) = Cardinality(Aindexes)..(n - Cardinality(Bindexes) - 1)
        \* the returned model coarse-grains again, onto its own A, I, B
        /\ {sets2[k] : k \in DOMAIN sets2} = {res.A, I(res), res.B} \ {{}}
        /\ n_states(again) = Len(sets2)
        /\ again.dt_model = self.dt_model

\* C5: coarse_grain returns a new model with A = Aindexes, B = Bindexes,
\* the physical_time of the original and one state per group; its A and B
\* are disjoint, its I is the index range of the I-region groups, it can be
\* coarse-grained again, and the call leaves the original model unchanged.
C5_NewModelAndFrame ==
    Coarsened => (self = ctor /\ C5_Result)

\* a call on a model with a physical_time other than the default
C5_Witness ==
    /\ Coarsened
    /\ self.dt_model > 1
    /\ res.A # {}
    /\ res.B # {}
    /\ I(res) # {}
    /\ n_states(res) # n_states(self)

(***************************************************************************)
(* Properties of the setters and of the derived quantities.                *)
(***************************************************************************)
\* the stored total flux and rate are the constructor's
C6_DerivedAsConstructed ==
    /\ self.flux = ctor.flux
    /\ self.qminus = ctor.qminus
    /\ self.totalflux = total_flux(ctor.flux, ctor.A)
    /\ self.kAB = rate_of(self.totalflux, ctor.mu, ctor.qminus)

\* a step replaces A, or B, or mu, and nothing else of the model
C6_OwnFieldOnly ==
    \/ self' = [self EXCEPT !.A = self'.A]
    \/ self' = [self EXCEPT !.B = self'.B]
    \/ self' = [self EXCEPT !.mu = self'.mu]

\* C6: after any sequence of calls of the A, B and stationary_distribution
\* setters the stored total flux and rate are still the values computed at
\* construction from the constructor's flux, A, mu and qminus; a setter
\* replaces only its own field and recomputes nothing.
C6_SettersRecomputeNothing ==
    []C6_DerivedAsConstructed /\ [][C6_OwnFieldOnly]_vars

\* A and mu were replaced and the stored total flux and rate are stale
C6_Witness ==
    LET now == total_flux(self.flux, self.A \cap DOMAIN self.flux)
    IN  /\ op = "setter"
        /\ self.A # ctor.A
        /\ self.mu # ctor.mu
        /\ self.totalflux # now
        /\ ~RatEq(self.kAB, rate_of(now, self.mu, self.qminus))

\* C8: whatever the A and B setters were given, I is exactly the states of
\* 0..n_states-1 in neither the current A nor the current B: it is
\* disjoint from A and from B, and A, I, B cover every state.
C8_IntermediateFollowsAB ==
    LET S == 0..(n_states(self) - 1)
    IN  /\ I(self) \subseteq S
        /\ I(self) \cap self.A = {}
        /\ I(self) \cap self.B = {}
        /\ (self.A \cup I(self) \cup self.B) \cap S = S
        /\ \A s \in S : s \in I(self) <=> (s \notin self.A /\ s \notin self.B)

\* A and B were both replaced, overlap, and I differs from the constructed one
C8_Witness ==
    /\ op = "setter"
    /\ self.A # ctor.A
    /\ self.B # ctor.B
    /\ self.A \cap self.B # {}
    /\ I(self) # {}
    /\ I(self) # (States \ ctor.A) \ ctor.B

NonZeroRate == Num(self.kAB) # 0

\* mfpt is the reciprocal of rate
C7_Reciprocal == RatEq(mfpt(self), RatInv(rate(self)))

\* rate times physical_time is what it was at construction
C7_RateInverse ==
    RatEq(RatTimes(rate(self), self.dt_model),
          RatTimes(rate(ctor), ctor.dt_model))

\* mfpt times physical_time is what it was at construction
C7_MfptInverse ==
    RatEq(RatTimes(mfpt(self), self.dt_model),
          RatTimes(mfpt(ctor), ctor.dt_model))

\* mfpt over physical_time is what it was at construction
C7_MfptProportional ==
    RatEq(RatTimes(mfpt(self), ctor.dt_model),
          RatTimes(mfpt(ctor), self.dt_model))

\* C7 as stated: mfpt = 1 / rate, and rate and mfpt both scale inversely
\* with physical_time.
C7_BothScaleInversely ==
    NonZeroRate => (C7_Reciprocal /\ C7_RateInverse /\ C7_MfptInverse)

\* C7 (amended): mfpt = 1 / rate; rate scales inversely with physical_time
\* and mfpt scales proportionally to it.
C7_ReciprocalAndScaling ==
    NonZeroRate => (C7_Reciprocal /\ C7_RateInverse /\ C7_MfptProportional)

\* physical_time was changed on a model with a non-zero rate
C7_Witness ==
    /\ op = "set_physical_time"
    /\ NonZeroRate
    /\ self.dt_model # ctor.dt_model
    /\ self.dt_model > 1

(***************************************************************************)
(* Properties of major_flux.                                               *)
(***************************************************************************)
\* how often the path p steps from i to j
Uses(p, i, j) ==
    Cardinality({t \in 1..(Len(p) - 1) : p[t] = i /\ p[t + 1] = j})

\* the flux of all paths over the edge (i, j)
PathFluxOver(i, j) ==
    SumSeq([k \in 1..Len(paths) |-> pathfluxes[k] * Uses(paths[k], i, j)])

\* C9: major_flux returns an n_states x n_states matrix whose entry (i, j)
\* is the sum, over the paths and over their steps from i to j, of the
\* path's flux; entries on no path are zero.
C9_MajorFluxSumsPaths ==
    op = "major_flux" =>
        LET S == 0..(n_states(self) - 1)
        IN  /\ DOMAIN F = S
            /\ \A i \in S :
                  /\ DOMAIN F[i] = S
                  /\ \A j \in S : F[i][j] = PathFluxOver(i, j)

\* two paths share an edge, and some entry is on no path
C9_Witness ==
    /\ op = "major_flux"
    /\ \E k, l \in DOMAIN paths :
          /\ k # l
          /\ paths[k] # paths[l]
          /\ \E i, j \in States :
                /\ Uses(paths[k], i, j) > 0
                /\ Uses(paths[l], i, j) > 0
                /\ F[i][j] = pathfluxes[k] + pathfluxes[l]
    /\ \E i, j \in States : i # j /\ F[i][j] = 0

(***************************************************************************)
(* How _compute_coarse_sets treats each user set and the unlisted states.  *)
(***************************************************************************)
\* the three regions in the order of the result
Regions == <<self.A, I(self), self.B>>

\* how many regions the set s has a state in
Met(s) == Cardinality({r \in DOMAIN Regions : s \cap Regions[r] # {}})

\* the groups inside the region R, in the order of the result
RegionGroups(R) == SelectSeq(tpt_sets, LAMBDA g : g \subseteq R)

\* C11: every user set gives one group to each region it has a state in,
\* namely its part in that region, and nothing to the other regions: a
\* non-empty user set inside one region comes back intact as one group, a
\* user set over two or three regions comes back as two or three groups;
\* A=[0], B=[2], n_states=3, user_sets=[{0,1},{2}] gives {0}, {1}, {2}.
C11_OneGroupPerRegionMet ==
    Called =>
      /\ \A r \in DOMAIN Regions :
            LET R == Regions[r]
                gs == RegionGroups(R)
                orig == Origins
            IN  /\ Len(gs) = Cardinality({i \in DOMAIN orig :
                                             orig[i] \cap R # {}})
                /\ \A i \in DOMAIN user_sets :
                      user_sets[i] \cap R # {} =>
                         LET at == 1 + Cardinality({j \in 1..(i - 1) :
                                          user_sets[j] \cap R # {}})
                         IN  /\ at <= Len(gs)
                             /\ gs[at] = user_sets[i] \cap R
                             /\ user_sets[i] \subseteq R
                                  => (gs[at] = user_sets[i]
                                      /\ Met(user_sets[i]) = 1)
      /\ ( /\ n_states(self) = 3
           /\ self.A = {0}
           /\ self.B = {2}
           /\ user_sets = <<{0, 1}, {2}>> )
         => tpt_sets = <<{0}, {1}, {2}>>

\* one user set over exactly two regions and one inside a single region
C11_Witness ==
    /\ Called
    /\ \E i, j \in DOMAIN user_sets :
          /\ Met(user_sets[i]) = 2
          /\ Met(user_sets[j]) = 1
          /\ \E k \in GroupIndexes : Group(k) = user_sets[j]
    /\ Len(tpt_sets) = 3

\* the states of 0..n_states-1 that no user set lists
Unlisted ==
    (0..(n_states(self) - 1)) \ UNION {user_sets[i] : i \in DOMAIN user_sets}

\* C12: the unlisted states form one remainder set handled after every user
\* set: in each region that holds unlisted states, the last group is exactly
\* the unlisted states of that region; the remainder adds no other group,
\* and none at all when the user sets list every state; with no user sets
\* the result is the non-empty ones among A, I, B, one to three groups.
C12_RemainderComesLast ==
    Called =>
      LET rest == Unlisted
      IN  /\ \A r \in DOMAIN Regions :
                LET R == Regions[r]
                    gs == RegionGroups(R)
                    listed == Cardinality({i \in DOMAIN user_sets :
                                              user_sets[i] \cap R # {}})
                IN  IF rest \cap R # {}
                    THEN /\ Len(gs) = listed + 1
                         /\ gs[Len(gs)] = rest \cap R
                    ELSE Len(gs) = listed
          /\ rest = {} =>
                \A k \in GroupIndexes :
                   \E i \in DOMAIN user_sets : Group(k) \subseteq user_sets[i]
          /\ user_sets = <<>> =>
                /\ tpt_sets = SelectSeq(Regions, LAMBDA R : R # {})
                /\ Len(tpt_sets) \in 1..3

\* a user set and the remainder both have states in one region, and the
\* remainder has states in a second region too
C12_Witness ==
    /\ Called
    /\ Len(user_sets) >= 1
    /\ Met(Unlisted) >= 2
    /\ \E r \in DOMAIN Regions : \E i \in DOMAIN user_sets :
          /\ Unlisted \cap Regions[r] # {}
          /\ user_sets[i] \cap Regions[r] # {}
          /\ Len(RegionGroups(Regions[r])) >= 2

\* the indexes of the user sets, and of the groups, that hold the state s
ListedBy(s) == {i \in DOMAIN user_sets : s \in user_sets[i]}
GroupsHolding(s) == {k \in GroupIndexes : s \in Group(k)}

\* C13: overlapping user sets are taken as they are: a state of
\* 0..n_states-1 that two user sets list is in as many groups as user sets
\* list it, hence in at least two entries of tpt_sets, all of them inside
\* the one region of the state; the call still returns, and what it
\* returns is not a partition.
C13_OverlapIsKept ==
    Called =>
      \A s \in 0..(n_states(self) - 1) :
         Cardinality(ListedBy(s)) >= 2 =>
            /\ Cardinality(GroupsHolding(s)) = Cardinality(ListedBy(s))
            /\ \E r \in DOMAIN Regions :
                  /\ s \in Regions[r]
                  /\ \A k \in GroupsHolding(s) : Group(k) \subseteq Regions[r]
            /\ ~PairwiseDisjoint(tpt_sets)

\* two different user sets share a state, and the call has returned groups
C13_Witness ==
    /\ Called
    /\ \E i, j \in DOMAIN user_sets :
          /\ user_sets[i] # user_sets[j]
          /\ user_sets[i] \cap user_sets[j] # {}
    /\ \E k, l \in GroupIndexes : k # l /\ Group(k) \cap Group(l) # {}

====
